---- MODULE Spec2Model ----
(***************************************************************************)
(* Model of DeviceDatabaseUpdater.py (Zaber Device Control Toolbox):       *)
(* the unit conversion classifier get_device_unit_conversions, the enum    *)
(* listing reader/merger read_binary_enum_file / write_binary_enum_file,   *)
(* and the order in which run() replaces its output artifacts.             *)
(*                                                                         *)
(* Python strings are TLA+ strings; the string methods the code uses       *)
(* (lower, replace, ljust, "in", sorted's ordering, %d, int) are computed  *)
(* character by character.                                                 *)
(***************************************************************************)
EXTENDS Integers, Sequences, FiniteSets, TLC

VARIABLES
    \* get_device_unit_conversions
    rows,        \* rows fetched for the product (line 230)
    ci,          \* index of the next row of the for loop (line 231)
    unit,        \* the locals of lines 221-227
    cpc,         \* "loop" | "returned" | "raised" | "idle"
    \* write_binary_enum_file
    disk,        \* the generated .m files: enum name -> [exists, lines]
    aEnumName,   \* the enum being written
    aCodeTable,  \* the (code, rawName) pairs to merge
    reg,         \* the locals valuesByName / namesByValue (lines 480-481)
    idx,         \* index of the next pair of the loop of line 494
    pc,          \* "load" | "merge" | "finalized" | "error" | "idle"
    warnings,    \* names printed by the WARNING lines 502/516, in order
    discarded,   \* indices of the pairs the loop ignored (old name matched)
    loaded,      \* valuesByName as it was after line 491
    prior,       \* the listing on disk when the call began: [exists, map]
    listing,     \* the (name, code) entries written by lines 531-539
    pass,        \* 1: first call, 2: the same call repeated
    firstDisk,   \* disk as the first call left it
    \* run
    runPc,       \* "start" | "savemat" | "enums" | "write" | "done" | "aborted" | "idle"
    args,        \* [skipdevices, skipenums]
    db,          \* the device database read through the cursor
    table,       \* the result of read_device_info (line 585)
    matfile,     \* the content of DeviceDatabase.mat
    enums,       \* the result of get_binary_enum_values (line 591)
    queue,       \* the write_binary_enum_file calls of lines 592-594 still to make
    disk0,       \* disk when the run began
    matfile0     \* matfile when the run began

cvars == <<rows, ci, unit, cpc>>
mvars == <<disk, aEnumName, aCodeTable, reg, idx, pc, warnings, discarded, loaded,
           prior, listing, pass, firstDisk>>
rvars == <<runPc, args, db, table, matfile, enums, queue, disk0, matfile0>>
vars == <<rows, ci, unit, cpc, disk, aEnumName, aCodeTable, reg, idx, pc, warnings,
          discarded, loaded, prior, listing, pass, firstDisk, runPc, args, db, table,
          matfile, enums, queue, disk0, matfile0>>

-----------------------------------------------------------------------------
(* Python string primitives *)

UpperAlpha == "ABCDEFGHIJKLMNOPQRSTUVWXYZ"
LowerAlpha == "abcdefghijklmnopqrstuvwxyz"
\* The characters of the model's strings in code point order (ASCII).
CharOrder == " ()-0123456789ABCDEFGHIJKLMNOPQRSTUVWXYZ_abcdefghijklmnopqrstuvwxyz"

CharAt(s, i) == SubSeq(s, i, i)
Rest(s) == SubSeq(s, 2, Len(s))

IndexIn(alphabet, c) ==
    IF \E i \in 1..Len(alphabet) : CharAt(alphabet, i) = c
    THEN CHOOSE i \in 1..Len(alphabet) : CharAt(alphabet, i) = c
    ELSE 0

\* Per-character tables, evaluated once.
Chars == {CharAt(CharOrder, i) : i \in 1..Len(CharOrder)}
Ord == [c \in Chars |-> IndexIn(CharOrder, c)]
ToLower ==
    [c \in Chars |-> IF IndexIn(UpperAlpha, c) > 0
                     THEN CharAt(LowerAlpha, IndexIn(UpperAlpha, c)) ELSE c]
ToUpper ==
    [c \in Chars |-> IF IndexIn(LowerAlpha, c) > 0
                     THEN CharAt(UpperAlpha, IndexIn(LowerAlpha, c)) ELSE c]

\* str.lower()
LowerChar(c) == IF c \in Chars THEN ToLower[c] ELSE c

RECURSIVE Lower(_)
Lower(s) == IF Len(s) = 0 THEN "" ELSE LowerChar(CharAt(s, 1)) \o Lower(Rest(s))

\* sub in s
Contains(s, sub) ==
    \E i \in 1..(Len(s) - Len(sub) + 1) : SubSeq(s, i, i + Len(sub) - 1) = sub

\* s.replace(from, to) for a one-character from
RECURSIVE Replace(_, _, _)
Replace(s, from, to) ==
    IF Len(s) = 0 THEN ""
    ELSE (IF CharAt(s, 1) = from THEN to ELSE CharAt(s, 1)) \o Replace(Rest(s), from, to)

\* str.upper()
UpperChar(c) == IF c \in Chars THEN ToUpper[c] ELSE c

RECURSIVE Upper(_)
Upper(s) == IF Len(s) = 0 THEN "" ELSE UpperChar(CharAt(s, 1)) \o Upper(Rest(s))

\* s.ljust(width, " ")
RECURSIVE LJust(_, _)
LJust(s, width) == IF Len(s) >= width THEN s ELSE LJust(s \o " ", width)

Digits == "0123456789"
DigitChars == {CharAt(Digits, i) : i \in 1..Len(Digits)}
ValueOfDigit == [c \in DigitChars |-> IndexIn(Digits, c) - 1]

\* "%d" % n
RECURSIVE NatToStr(_)
NatToStr(n) ==
    IF n < 10 THEN CharAt(Digits, n + 1)
    ELSE NatToStr(n \div 10) \o CharAt(Digits, (n % 10) + 1)
IntToStr(n) == IF n < 0 THEN "-" \o NatToStr(-n) ELSE NatToStr(n)

\* int(s) for a string of decimal digits
RECURSIVE ParseNat(_, _)
ParseNat(s, acc) ==
    IF Len(s) = 0 THEN acc
    ELSE ParseNat(Rest(s), 10 * acc + ValueOfDigit[CharAt(s, 1)])

\* a < b for Python strings: lexicographic by code point
RECURSIVE StrLess(_, _)
StrLess(a, b) ==
    IF Len(b) = 0 THEN FALSE
    ELSE IF Len(a) = 0 THEN TRUE
    ELSE IF CharAt(a, 1) = CharAt(b, 1) THEN StrLess(Rest(a), Rest(b))
    ELSE Ord[CharAt(a, 1)] < Ord[CharAt(b, 1)]

-----------------------------------------------------------------------------
(* get_dimension_names *)

\* Rows of Matlab_Dimensions (Id, Name); id 5 is missing from the table.
DimensionRows ==
    << [Id |-> 1, Name |-> "Length"],
       [Id |-> 2, Name |-> "Angle"],
       [Id |-> 3, Name |-> "Angular Velocity"],
       [Id |-> 4, Name |-> "Acceleration"],
       [Id |-> 6, Name |-> "Torque"] >>

RECURSIVE MaxIndex(_, _)
MaxIndex(dimRows, k) ==
    IF k = 0 THEN 0
    ELSE IF dimRows[k].Id > MaxIndex(dimRows, k - 1) THEN dimRows[k].Id
    ELSE MaxIndex(dimRows, k - 1)

\* The list result of get_dimension_names, indexed from 0.
GetDimensionNames(dimRows) ==
    [id \in 0..MaxIndex(dimRows, Len(dimRows)) |->
        IF \E k \in 1..Len(dimRows) : dimRows[k].Id = id
        THEN LET last == CHOOSE k \in 1..Len(dimRows) :
                            /\ dimRows[k].Id = id
                            /\ \A j \in (k + 1)..Len(dimRows) : dimRows[j].Id # id
             IN dimRows[last].Name
        ELSE IF id = 0 THEN "none" ELSE "unknown"]

aDimensionTable == GetDimensionNames(DimensionRows)

-----------------------------------------------------------------------------
(* get_device_unit_conversions *)

MaxRows == 2
ScaleValues == {1, 2}
FunctionNames == {"Linear-Resolution", "Linear", "Tangential", "Quadratic"}

ConversionRow == [DimensionId : DOMAIN aDimensionTable, Scale : ScaleValues,
                  FunctionName : FunctionNames]

\* Lines 221-227.
UnitStart ==
    [motionType |-> 0, positionScale |-> 1, velocityScale |-> 1, accelScale |-> 1,
     forceScale |-> 1, function |-> "linear-resolution", useResolution |-> FALSE]

\* MotionTypeOf testing for "angular" where line 250 tests for "ang".
MotionTypeOf_AngularOnly(function, dimensionName) ==
    IF Contains(function, "linear")
    THEN IF dimensionName = "length" \/ dimensionName = "velocity"
            \/ dimensionName = "acceleration" THEN 1
         ELSE IF Contains(dimensionName, "angular") THEN 2
         ELSE IF Contains(dimensionName, "none") \/ Len(dimensionName) < 1 THEN 0
         ELSE 9
    ELSE IF Contains(function, "tangential") THEN 3
    ELSE -1

\* Lines 247-257: the motion type of a position row; -1 stands for the KeyError.
MotionTypeOf(function, dimensionName) ==
    IF Contains(function, "linear")
    THEN IF dimensionName = "length" \/ dimensionName = "velocity"
            \/ dimensionName = "acceleration" THEN 1
         ELSE IF Contains(dimensionName, "ang") THEN 2
         ELSE IF Contains(dimensionName, "none") \/ Len(dimensionName) < 1 THEN 0
         ELSE 9
    ELSE IF Contains(function, "tangential") THEN 3
    ELSE -1

\* Lines 243-244: the flag after a position row.
UseResolutionAfter(old, function) ==
    IF Contains(function, "resolution") THEN TRUE ELSE old

\* Lines 234-235 for every function name and dimension id of the model,
\* evaluated once.
LowerFunctionName == [f \in FunctionNames |-> Lower(f)]
LowerDimensionName == [id \in DOMAIN aDimensionTable |-> Lower(aDimensionTable[id])]

\* The dimension name derived at line 235.
DimensionNameOf(row) == LowerDimensionName[row.DimensionId]

\* ClassifyRow with line 262 assigning positionScale where it should assign
\* velocityScale.
ClassifyRow_VelocityAsPosition(u, row) ==
    LET scale == row.Scale
        function == LowerFunctionName[row.FunctionName]
        dimensionName == DimensionNameOf(row)
        u0 == [u EXCEPT !.function = function]
    IN  IF dimensionName \in {"length", "angle"}
        THEN LET t == MotionTypeOf(function, dimensionName)
                 u1 == [u0 EXCEPT !.positionScale = scale,
                                  !.useResolution = UseResolutionAfter(@, function)]
             IN IF t = -1 THEN u1 ELSE [u1 EXCEPT !.motionType = t]
        ELSE IF Contains(dimensionName, "velocity")
        THEN [u0 EXCEPT !.positionScale = scale]
        ELSE IF Contains(dimensionName, "acceleration")
        THEN [u0 EXCEPT !.accelScale = scale]
        ELSE IF dimensionName \in {"force", "torque"}
        THEN [u0 EXCEPT !.forceScale = scale]
        ELSE u0

\* One iteration of the loop of lines 231-266 (the locals after it; a raise
\* leaves the locals as they were when the KeyError was raised).
ClassifyRow(u, row) ==
    LET scale == row.Scale
        function == LowerFunctionName[row.FunctionName]
        dimensionName == DimensionNameOf(row)
        u0 == [u EXCEPT !.function = function]
    IN  IF dimensionName \in {"length", "angle"}
        THEN LET t == MotionTypeOf(function, dimensionName)
                 u1 == [u0 EXCEPT !.positionScale = scale,
                                  !.useResolution = UseResolutionAfter(@, function)]
             IN IF t = -1 THEN u1 ELSE [u1 EXCEPT !.motionType = t]
        ELSE IF Contains(dimensionName, "velocity")
        THEN [u0 EXCEPT !.velocityScale = scale]
        ELSE IF Contains(dimensionName, "acceleration")
        THEN [u0 EXCEPT !.accelScale = scale]
        ELSE IF dimensionName \in {"force", "torque"}
        THEN [u0 EXCEPT !.forceScale = scale]
        ELSE u0

\* RowRaises testing the function of every row, whatever its dimension.
RowRaises_AnyDimension(row) ==
    MotionTypeOf(LowerFunctionName[row.FunctionName], "length") = -1

\* Line 259: the row raises KeyError.
RowRaises(row) ==
    /\ DimensionNameOf(row) \in {"length", "angle"}
    /\ MotionTypeOf(LowerFunctionName[row.FunctionName], DimensionNameOf(row)) = -1

ClassifierIdle == rows = <<>> /\ ci = 0 /\ unit = UnitStart /\ cpc = "idle"

ClassifyInit ==
    /\ rows \in UNION {[1..n -> ConversionRow] : n \in 0..MaxRows}
    /\ ci = 1
    /\ unit = UnitStart
    /\ cpc = "loop"

\* A loop iteration that completes.
ClassifyNext ==
    /\ cpc = "loop" /\ ci <= Len(rows)
    /\ ~RowRaises(rows[ci])
    /\ unit' = ClassifyRow(unit, rows[ci])
    /\ ci' = ci + 1
    /\ UNCHANGED <<rows, cpc>>

\* A loop iteration that raises KeyError at line 259.
ClassifyRaise ==
    /\ cpc = "loop" /\ ci <= Len(rows)
    /\ RowRaises(rows[ci])
    /\ unit' = ClassifyRow(unit, rows[ci])
    /\ cpc' = "raised"
    /\ UNCHANGED <<rows, ci>>

\* Line 268.
ClassifyReturn ==
    /\ cpc = "loop" /\ ci > Len(rows)
    /\ cpc' = "returned"
    /\ UNCHANGED <<rows, ci, unit>>

ClassifierNext ==
    \/ ClassifyNext /\ UNCHANGED <<mvars, rvars>>
    \/ ClassifyRaise /\ UNCHANGED <<mvars, rvars>>
    \/ ClassifyReturn /\ UNCHANGED <<mvars, rvars>>

-----------------------------------------------------------------------------
(* read_binary_enum_file *)

\* \s of the regular expression, for the characters of the model
IsSpace(c) == c = " "
IsDigit(c) == c \in DigitChars
NotSpace(c) == ~IsSpace(c)

\* Membership in a character class of the expression: \s, [^\s] or \d.
InClass(c, class) ==
    IF class = "\\s" THEN IsSpace(c)
    ELSE IF class = "[^\\s]" THEN NotSpace(c)
    ELSE IsDigit(c)

\* The last index of the longest run of characters of the class that starts
\* at index from (from - 1 when the run is empty): a greedy + or *.
RunEnd(line, from, class) ==
    LET ends == {e \in (from - 1)..Len(line) :
                    \A k \in from..e : InClass(CharAt(line, k), class)}
    IN CHOOSE e \in ends : \A f \in ends : f <= e

\* Line 442-451: r.match(line) for r = ^\s+([^\s]+)\s+\((\d+)\) ; the result
\* is <<>> for no match, else << <<name, val>> >>.  Every group of the
\* expression is followed by a character it cannot match, so each greedy run
\* is the only way to match.
MatchLine(line) ==
    LET s1 == RunEnd(line, 1, "\\s")
        n1 == RunEnd(line, s1 + 1, "[^\\s]")
        s2 == RunEnd(line, n1 + 1, "\\s")
        d1 == RunEnd(line, s2 + 2, "\\d")
    IN  IF /\ s1 >= 1
           /\ n1 > s1
           /\ s2 > n1
           /\ s2 + 1 <= Len(line) /\ CharAt(line, s2 + 1) = "("
           /\ d1 > s2 + 1
           /\ d1 + 1 <= Len(line) /\ CharAt(line, d1 + 1) = ")"
        THEN << <<SubSeq(line, s1 + 1, n1), ParseNat(SubSeq(line, s2 + 2, d1), 0)>> >>
        ELSE <<>>

\* Lines 440-453: the (name, val) tuples of the matching lines, in file order.
RECURSIVE ReadBinaryEnumFile(_)
ReadBinaryEnumFile(lines) ==
    IF lines = <<>> THEN <<>>
    ELSE MatchLine(Head(lines)) \o ReadBinaryEnumFile(Tail(lines))

-----------------------------------------------------------------------------
(* write_binary_enum_file *)

EnumNames == {"BinaryCommandType", "BinaryReplyType", "BinaryErrorType"}
\* Lines 592-594.
BaseTypeOf(enumName) == IF enumName = "BinaryErrorType" THEN "int32" ELSE "uint8"

NoFile == [exists |-> FALSE, lines |-> <<>>]
EmptyMap == [n \in {} |-> 0]
\* Lines 480-481: valuesbyName (sic) and namesByValue are bound to empty
\* dicts; the name valuesByName that the rest of the function uses is not
\* bound by line 480.
RegStart == [bound |-> FALSE, valuesByName |-> EmptyMap, namesByValue |-> EmptyMap]

Put(f, k, v) == [x \in DOMAIN f \cup {k} |-> IF x = k THEN v ELSE f[x]]
\* namesByValue.setdefault(code, []); namesByValue[code].append(name)
AppendName(namesByValue, code, name) ==
    Put(namesByValue, code,
        (IF code \in DOMAIN namesByValue THEN namesByValue[code] ELSE <<>>) \o <<name>>)

\* Line 486: dict(tuples), later tuples overwriting earlier ones.
RECURSIVE DictOf(_)
DictOf(tuples) ==
    IF tuples = <<>> THEN EmptyMap
    ELSE LET n == Len(tuples)
         IN Put(DictOf(SubSeq(tuples, 1, n - 1)), tuples[n][1], tuples[n][2])

\* The keys of dict(tuples) in insertion order (first occurrence).
RECURSIVE KeysInOrder(_, _)
KeysInOrder(tuples, seen) ==
    IF tuples = <<>> THEN <<>>
    ELSE IF Head(tuples)[1] \in seen THEN KeysInOrder(Tail(tuples), seen)
    ELSE <<Head(tuples)[1]>> \o KeysInOrder(Tail(tuples), seen \cup {Head(tuples)[1]})

\* Lines 487-489.
RECURSIVE NamesByValueOf(_, _)
NamesByValueOf(keys, valuesByName) ==
    IF keys = <<>> THEN EmptyMap
    ELSE LET n == Len(keys)
         IN AppendName(NamesByValueOf(SubSeq(keys, 1, n - 1), valuesByName),
                       valuesByName[keys[n]], keys[n])

\* Lines 485-489: the locals after reloading an existing file.
LoadRegistry(file) ==
    IF file.exists
    THEN LET tuples == ReadBinaryEnumFile(file.lines)
             valuesByName == DictOf(tuples)
         IN [bound |-> TRUE, valuesByName |-> valuesByName,
             namesByValue |-> NamesByValueOf(KeysInOrder(tuples, {}), valuesByName)]
    ELSE RegStart

\* Line 495.
Sanitize(rawName) == Replace(Replace(rawName, " ", "_"), "-", "_")

\* Lines 508-511.
OldNameMatches(names, name) ==
    \E i \in 1..Len(names) : Lower(names[i]) = Lower(name)

\* MergePair without the warning of lines 501-502.
MergePair_SilentRebind(r, code, rawName) ==
    LET name == Sanitize(rawName)
        bind == [r EXCEPT !.valuesByName = Put(@, name, code),
                          !.namesByValue = AppendName(@, code, name)]
    IN  IF code \notin DOMAIN r.namesByValue
        THEN IF ~r.bound
             THEN [reg |-> [r EXCEPT !.namesByValue = AppendName(@, code, name)],
                   warned |-> FALSE, ignored |-> FALSE, error |-> TRUE]
             ELSE [reg |-> bind, warned |-> FALSE, ignored |-> FALSE, error |-> FALSE]
        ELSE IF OldNameMatches(r.namesByValue[code], name)
             THEN [reg |-> r, warned |-> FALSE, ignored |-> TRUE, error |-> FALSE]
             ELSE IF ~r.bound
                  THEN [reg |-> [r EXCEPT !.namesByValue = AppendName(@, code, name)],
                        warned |-> FALSE, ignored |-> FALSE, error |-> TRUE]
                  ELSE [reg |-> bind,
                        warned |-> /\ name \in DOMAIN r.valuesByName
                                   /\ code # r.valuesByName[name],
                        ignored |-> FALSE, error |-> FALSE]

\* Lines 494-517, one iteration: [reg, warned, ignored, error].  Reading the
\* unbound local valuesByName raises UnboundLocalError (lines 501, 515).
MergePair(r, code, rawName) ==
    LET name == Sanitize(rawName)
        bind == [r EXCEPT !.valuesByName = Put(@, name, code),
                          !.namesByValue = AppendName(@, code, name)]
    IN  IF code \notin DOMAIN r.namesByValue
        THEN IF ~r.bound
             THEN [reg |-> [r EXCEPT !.namesByValue = AppendName(@, code, name)],
                   warned |-> FALSE, ignored |-> FALSE, error |-> TRUE]
             ELSE [reg |-> bind, warned |-> name \in DOMAIN r.valuesByName,
                   ignored |-> FALSE, error |-> FALSE]
        ELSE IF OldNameMatches(r.namesByValue[code], name)
             THEN [reg |-> r, warned |-> FALSE, ignored |-> TRUE, error |-> FALSE]
             ELSE IF ~r.bound
                  THEN [reg |-> [r EXCEPT !.namesByValue = AppendName(@, code, name)],
                        warned |-> FALSE, ignored |-> FALSE, error |-> TRUE]
                  ELSE [reg |-> bind,
                        warned |-> /\ name \in DOMAIN r.valuesByName
                                   /\ code # r.valuesByName[name],
                        ignored |-> FALSE, error |-> FALSE]

\* sorted(names, reverse=True)
RECURSIVE Sorted_Descending(_)
Sorted_Descending(names) ==
    IF names = {} THEN <<>>
    ELSE LET greatest == CHOOSE n \in names : \A m \in names \ {n} : StrLess(m, n)
         IN <<greatest>> \o Sorted_Descending(names \ {greatest})

\* sorted(names)
RECURSIVE Sorted(_)
Sorted(names) ==
    IF names = {} THEN <<>>
    ELSE LET least == CHOOSE n \in names : \A m \in names \ {n} : StrLess(n, m)
         IN <<least>> \o Sorted(names \ {least})

\* Lines 519-521.
RECURSIVE MaxLength(_)
MaxLength(names) ==
    IF names = {} THEN 1
    ELSE LET n == CHOOSE x \in names : TRUE
             m == MaxLength(names \ {n})
         IN IF Len(n) > m THEN Len(n) ELSE m

\* Lines 530-539: the (name, code) entries written, generatedNames being the
\* names written so far.
RECURSIVE EntriesFrom(_, _, _)
EntriesFrom(sortedNames, valuesByName, generatedNames) ==
    IF sortedNames = <<>> THEN <<>>
    ELSE LET name == Head(sortedNames)
         IN IF name \notin generatedNames
            THEN << <<name, valuesByName[name]>> >>
                 \o EntriesFrom(Tail(sortedNames), valuesByName, generatedNames \cup {name})
            ELSE EntriesFrom(Tail(sortedNames), valuesByName, generatedNames)

EnumEntries(valuesByName) == EntriesFrom(Sorted(DOMAIN valuesByName), valuesByName, {})

\* Lines 536-540: the text of the entries, split at the "\n" written.
EntryLines(entries, maxLength) ==
    IF entries = <<>> THEN <<"">>
    ELSE [i \in 1..Len(entries) |->
            "        " \o LJust(entries[i][1], maxLength)
            \o " (" \o IntToStr(entries[i][2]) \o ")"
            \o (IF i < Len(entries) THEN "," ELSE "")]

\* Lines 524-543: the lines of the file written.
RenderFile(valuesByName, enumName, baseType) ==
    [exists |-> TRUE,
     lines |->
        << "%   " \o Upper(enumName)
              \o " Enumeration to assist with interpreting Zaber Binary protocol codes.",
           "",
           "%   THIS IS A GENERATED FILE - DO NOT EDIT. See DeviceDatabaseUpdater.py.",
           "",
           "classdef " \o enumName \o " < " \o baseType,
           "    enumeration" >>
        \o EntryLines(EnumEntries(valuesByName), MaxLength(DOMAIN valuesByName))
        \o << "    end", "end" >>]

-----------------------------------------------------------------------------
(* write_binary_enum_file called for one listing, and called again with the
   same code table (the script run twice on the same database) *)

MaxPairs == 2
Codes == {-1, 1, 2}
RawNames == {"Foo", "foo", "F o", "F-o"}
\* The names a generated listing can hold
ListedNames == {Sanitize(n) : n \in RawNames}

CodePair == Codes \X RawNames
\* get_binary_enum_values returns each table sorted by raw name (lines 401,
\* 409, 418); sorted() is stable, so equal names keep any order.
IsSortedByName(t) ==
    \A i \in 1..(Len(t) - 1) : t[i][2] = t[i + 1][2] \/ StrLess(t[i][2], t[i + 1][2])
CodeTables ==
    {t \in UNION {[1..n -> CodePair] : n \in 0..MaxPairs} : IsSortedByName(t)}

\* The listings a previous run can have generated
PriorMaps == UNION {[S -> Codes] : S \in SUBSET ListedNames}

AllAbsent == [e \in EnumNames |-> NoFile]
NoPrior == [exists |-> FALSE, map |-> EmptyMap]

MergerIdle ==
    /\ disk = AllAbsent /\ aEnumName = "none" /\ aCodeTable = <<>>
    /\ reg = RegStart /\ idx = 0 /\ pc = "idle" /\ warnings = <<>>
    /\ discarded = {} /\ loaded = EmptyMap /\ listing = <<>> /\ pass = 0
    /\ firstDisk = AllAbsent /\ prior = NoPrior

MergeInit ==
    /\ aEnumName = "BinaryErrorType"
    /\ \/ disk = AllAbsent /\ prior = NoPrior
       \/ \E m \in PriorMaps :
             /\ disk = [AllAbsent EXCEPT
                          !["BinaryErrorType"] = RenderFile(m, "BinaryErrorType", "int32")]
             /\ prior = [exists |-> TRUE, map |-> m]
    /\ aCodeTable \in CodeTables
    /\ reg = RegStart /\ idx = 1 /\ pc = "load" /\ warnings = <<>>
    /\ discarded = {} /\ loaded = EmptyMap /\ listing = <<>> /\ pass = 1
    /\ firstDisk = AllAbsent

\* Lines 480-491: reload the existing file, then remove it.
EnumLoad ==
    /\ pc = "load"
    /\ reg' = LoadRegistry(disk[aEnumName])
    /\ loaded' = reg'.valuesByName
    /\ disk' = [disk EXCEPT ![aEnumName] = NoFile]
    /\ idx' = 1
    /\ pc' = "merge"
    /\ UNCHANGED <<aEnumName, aCodeTable, warnings, discarded, prior, listing, pass,
                   firstDisk>>

\* Lines 494-517: one iteration of the merge loop.
EnumMergePair ==
    /\ pc = "merge" /\ idx <= Len(aCodeTable)
    /\ LET m == MergePair(reg, aCodeTable[idx][1], aCodeTable[idx][2])
       IN /\ ~m.error
          /\ reg' = m.reg
          /\ warnings' = IF m.warned
                         THEN Append(warnings, Sanitize(aCodeTable[idx][2]))
                         ELSE warnings
          /\ discarded' = IF m.ignored THEN discarded \cup {idx} ELSE discarded
    /\ idx' = idx + 1
    /\ UNCHANGED <<disk, aEnumName, aCodeTable, pc, loaded, prior, listing, pass,
                   firstDisk>>

\* Lines 501/515 raise UnboundLocalError: the call ends, nothing is written.
EnumMergeFail ==
    /\ pc = "merge" /\ idx <= Len(aCodeTable)
    /\ LET m == MergePair(reg, aCodeTable[idx][1], aCodeTable[idx][2])
       IN /\ m.error
          /\ reg' = m.reg
    /\ pc' = "error"
    /\ UNCHANGED <<disk, aEnumName, aCodeTable, idx, warnings, discarded, loaded,
                   prior, listing, pass, firstDisk>>

\* Lines 519-543: write the merged listing.
EnumFinalize ==
    /\ pc = "merge" /\ idx > Len(aCodeTable)
    /\ reg.bound
    /\ listing' = EnumEntries(reg.valuesByName)
    /\ disk' = [disk EXCEPT ![aEnumName] =
                    RenderFile(reg.valuesByName, aEnumName, BaseTypeOf(aEnumName))]
    /\ pc' = "finalized"
    /\ UNCHANGED <<aEnumName, aCodeTable, reg, idx, warnings, discarded, loaded, prior,
                   pass, firstDisk>>

\* Line 520 raises UnboundLocalError (an empty code table and no file).
EnumFinalizeFail ==
    /\ pc = "merge" /\ idx > Len(aCodeTable)
    /\ ~reg.bound
    /\ pc' = "error"
    /\ UNCHANGED <<disk, aEnumName, aCodeTable, reg, idx, warnings, discarded, loaded,
                   prior, listing, pass, firstDisk>>

\* The same call made again on what the first call left on disk.
EnumRepeat ==
    /\ pc = "finalized" /\ pass = 1
    /\ pass' = 2
    /\ firstDisk' = disk
    /\ prior' = [exists |-> TRUE, map |-> DictOf(listing)]
    /\ reg' = RegStart /\ idx' = 1 /\ pc' = "load" /\ warnings' = <<>>
    /\ discarded' = {} /\ loaded' = EmptyMap /\ listing' = <<>>
    /\ UNCHANGED <<disk, aEnumName, aCodeTable>>

MergeNext ==
    \/ EnumLoad /\ UNCHANGED <<cvars, rvars>>
    \/ EnumMergePair /\ UNCHANGED <<cvars, rvars>>
    \/ EnumMergeFail /\ UNCHANGED <<cvars, rvars>>
    \/ EnumFinalize /\ UNCHANGED <<cvars, rvars>>
    \/ EnumFinalizeFail /\ UNCHANGED <<cvars, rvars>>
    \/ EnumRepeat /\ UNCHANGED <<cvars, rvars>>

-----------------------------------------------------------------------------
(* read_device_info *)

\* Lines 229-268 for the rows of one product: [raised, unit].
RECURSIVE GetDeviceUnitConversions(_, _)
GetDeviceUnitConversions(productRows, u) ==
    IF productRows = <<>> THEN [raised |-> FALSE, unit |-> u]
    ELSE IF RowRaises(Head(productRows))
         THEN [raised |-> TRUE, unit |-> ClassifyRow(u, Head(productRows))]
         ELSE GetDeviceUnitConversions(Tail(productRows), ClassifyRow(u, Head(productRows)))

\* DeviceBefore comparing MinorVersion before MajorVersion.
DeviceBefore_MinorFirst(a, b) ==
    \/ a.DeviceId < b.DeviceId
    \/ a.DeviceId = b.DeviceId /\ a.MinorVersion > b.MinorVersion
    \/ a.DeviceId = b.DeviceId /\ a.MinorVersion = b.MinorVersion
       /\ a.MajorVersion > b.MajorVersion
    \/ a.DeviceId = b.DeviceId /\ a.MinorVersion = b.MinorVersion
       /\ a.MajorVersion = b.MajorVersion /\ a.Build > b.Build

\* ORDER BY DeviceId, MajorVersion DESC, MinorVersion DESC, Build DESC (line 292)
DeviceBefore(a, b) ==
    \/ a.DeviceId < b.DeviceId
    \/ a.DeviceId = b.DeviceId /\ a.MajorVersion > b.MajorVersion
    \/ a.DeviceId = b.DeviceId /\ a.MajorVersion = b.MajorVersion
       /\ a.MinorVersion > b.MinorVersion
    \/ a.DeviceId = b.DeviceId /\ a.MajorVersion = b.MajorVersion
       /\ a.MinorVersion = b.MinorVersion /\ a.Build > b.Build

PeripheralBefore(a, b) == a.PeripheralId < b.PeripheralId

\* The rows of a query in its ORDER BY order (rows that the order does not
\* separate come in an order the database chooses).
RECURSIVE OrderDevices(_)
OrderDevices(rowSet) ==
    IF rowSet = {} THEN <<>>
    ELSE LET first == CHOOSE r \in rowSet : \A q \in rowSet : ~DeviceBefore(q, r)
         IN <<first>> \o OrderDevices(rowSet \ {first})

RECURSIVE OrderPeripherals(_)
OrderPeripherals(rowSet) ==
    IF rowSet = {} THEN <<>>
    ELSE LET first == CHOOSE r \in rowSet : \A q \in rowSet : ~PeripheralBefore(q, r)
         IN <<first>> \o OrderPeripherals(rowSet \ {first})

\* Lines 298-306: the first row of each device id.
RECURSIVE SelectDevices(_, _)
SelectDevices(deviceRows, currentId) ==
    IF deviceRows = <<>> THEN <<>>
    ELSE LET row == Head(deviceRows)
         IN IF row.DeviceId # currentId
            THEN << <<row.DeviceId, row.Name, row.Id>> >>
                 \o SelectDevices(Tail(deviceRows), row.DeviceId)
            ELSE SelectDevices(Tail(deviceRows), currentId)

\* Lines 328-338 and 343-354: one row of periTable, or the KeyError.
PeripheralRecord(database, peripheralId, name, productId) ==
    LET c == GetDeviceUnitConversions(database.conversions[productId], UnitStart)
    IN [raised |-> c.raised,
        PeripheralId |-> peripheralId, Name |-> name,
        MotionType |-> c.unit.motionType,
        PositionUnitScale |-> c.unit.positionScale,
        VelocityUnitScale |-> c.unit.velocityScale,
        AccelerationUnitScale |-> c.unit.accelScale,
        ForceUnitScale |-> c.unit.forceScale,
        IsScaleResolutionDependent |-> c.unit.useResolution]

\* Lines 318-356: the periTable of one device.
PeripheralsOf(database, device) ==
    LET peripherals ==
            OrderPeripherals({r \in database.peripherals : r.ParentId = device[3]})
    IN IF Len(peripherals) < 1
       THEN << PeripheralRecord(database, 0, "", device[3]) >>
       ELSE [j \in 1..Len(peripherals) |->
                PeripheralRecord(database, peripherals[j].PeripheralId,
                                 peripherals[j].Name, peripherals[j].Id)]

\* Lines 287-360: [error, table]; error is "" when the table is returned.
ReadDeviceInfo(database) ==
    LET ordered == OrderDevices(database.devices)
        devices == SelectDevices(ordered, -1)
        built == [i \in 1..Len(devices) |->
                    [DeviceId |-> devices[i][1], Name |-> devices[i][2],
                     Peripherals |-> PeripheralsOf(database, devices[i])]]
    IN IF Len(ordered) < 1 THEN [error |-> "IOError", table |-> <<>>]
       ELSE IF \E i \in 1..Len(built) : \E j \in 1..Len(built[i].Peripherals) :
                   built[i].Peripherals[j].raised
       THEN [error |-> "KeyError", table |-> <<>>]
       ELSE [error |-> "", table |-> built]

-----------------------------------------------------------------------------
(* get_binary_enum_values *)

\* sorted(pairs, key=lambda item: item[1]): a stable sort by raw name
RECURSIVE SortedByName(_)
SortedByName(pairs) ==
    IF pairs = <<>> THEN <<>>
    ELSE LET n == Len(pairs)
             front == SortedByName(SubSeq(pairs, 1, n - 1))
             at == Cardinality({i \in 1..Len(front) : ~StrLess(pairs[n][2], front[i][2])})
         IN SubSeq(front, 1, at) \o <<pairs[n]>> \o SubSeq(front, at + 1, Len(front))

\* A NULL column is the empty set, a value v is {v}.
RECURSIVE SettingPairs(_, _, _)
SettingPairs(settings, column, prefix) ==
    IF settings = <<>> THEN <<>>
    ELSE (IF Head(settings)[column] = {} THEN <<>>
          ELSE << <<CHOOSE v \in Head(settings)[column] : TRUE,
                    prefix \o Head(settings).Name>> >>)
         \o SettingPairs(Tail(settings), column, prefix)

\* Lines 383-420.
GetBinaryEnumValues(database) ==
    [commands |-> SortedByName(database.commands
                               \o SettingPairs(database.settings, "ReturnCommand", "Return ")
                               \o SettingPairs(database.settings, "SetCommand", "Set ")),
     replies |-> SortedByName(database.replies),
     errors |-> SortedByName(database.errors)]

-----------------------------------------------------------------------------
(* run *)

\* Rows of Matlab_Devices: device 7 in four firmware versions, controller 8.
DevicePool ==
    { [DeviceId |-> 7, MajorVersion |-> 1, MinorVersion |-> 0, Build |-> 0,
       Name |-> "Stage", Id |-> 1],
      [DeviceId |-> 7, MajorVersion |-> 1, MinorVersion |-> 2, Build |-> 0,
       Name |-> "Stage B", Id |-> 2],
      [DeviceId |-> 7, MajorVersion |-> 1, MinorVersion |-> 2, Build |-> 3,
       Name |-> "Stage C", Id |-> 6],
      [DeviceId |-> 7, MajorVersion |-> 2, MinorVersion |-> 0, Build |-> 0,
       Name |-> "Stage D", Id |-> 7],
      [DeviceId |-> 8, MajorVersion |-> 1, MinorVersion |-> 0, Build |-> 0,
       Name |-> "Controller", Id |-> 3] }
\* Rows of Matlab_Peripherals: the controller (product 3) has two.
PeripheralRows ==
    { [PeripheralId |-> 20, Name |-> "Rotary", ParentId |-> 3, Id |-> 5],
      [PeripheralId |-> 10, Name |-> "Linear", ParentId |-> 3, Id |-> 4] }
\* Rows of Matlab_ProductsDimensionsFunctions by product; product 5 has a
\* position row whose function is the given one.
ConversionsWith(function) ==
    [product \in 1..7 |->
        CASE product = 1 -> << [DimensionId |-> 1, Scale |-> 2,
                                FunctionName |-> "Linear-Resolution"] >>
          [] product = 2 -> << [DimensionId |-> 1, Scale |-> 2, FunctionName |-> "Linear"],
                               [DimensionId |-> 3, Scale |-> 2, FunctionName |-> "Quadratic"] >>
          [] product = 3 -> << >>
          [] product = 4 -> << [DimensionId |-> 1, Scale |-> 1, FunctionName |-> "Tangential"] >>
          [] product = 5 -> << [DimensionId |-> 2, Scale |-> 2, FunctionName |-> function] >>
          [] product = 6 -> << [DimensionId |-> 2, Scale |-> 1, FunctionName |-> "Linear"] >>
          [] product = 7 -> << [DimensionId |-> 1, Scale |-> 1, FunctionName |-> "Linear"],
                               [DimensionId |-> 4, Scale |-> 2, FunctionName |-> "Linear"] >>]

Databases ==
    { [devices |-> d, peripherals |-> PeripheralRows, conversions |-> ConversionsWith(f),
       commands |-> << <<1, "Home">>, <<2, "Move-Abs">> >>,
       settings |-> << [Name |-> "Foo", ReturnCommand |-> {1}, SetCommand |-> {}] >>,
       replies |-> << <<1, "foo">> >>,
       errors |-> e] :
      d \in SUBSET DevicePool, f \in {"Linear", "Quadratic"},
      e \in {<< >>, << <<-1, "F o">>, <<2, "F-o">> >>} }

\* The listing a previous run left for an enum, where one exists.
OldMap == [n \in {"Foo"} |-> 1]
OldListing(enumName) == RenderFile(OldMap, enumName, BaseTypeOf(enumName))

RunIdle ==
    /\ runPc = "idle" /\ args = [skipdevices |-> TRUE, skipenums |-> TRUE]
    /\ db = [devices |-> {}] /\ table = <<>> /\ matfile = <<>> /\ enums = <<>>
    /\ queue = <<>> /\ disk0 = AllAbsent /\ matfile0 = <<>>

RunInit ==
    /\ runPc = "start"
    /\ args \in [skipdevices : BOOLEAN, skipenums : BOOLEAN]
    /\ db \in Databases
    /\ table = <<>>
    /\ matfile = << "devices of an earlier run" >>
    /\ matfile0 = matfile
    /\ \E present \in SUBSET EnumNames :
          disk = [e \in EnumNames |-> IF e \in present THEN OldListing(e) ELSE NoFile]
    /\ disk0 = disk
    /\ enums = <<>> /\ queue = <<>>
    /\ aEnumName = "none" /\ aCodeTable = <<>>
    /\ reg = RegStart /\ idx = 0 /\ pc = "idle" /\ warnings = <<>>
    /\ discarded = {} /\ loaded = EmptyMap /\ listing = <<>> /\ pass = 0
    /\ firstDisk = AllAbsent /\ prior = NoPrior

\* Lines 583-585: read_device_info returns the table.
RunReadDeviceInfo ==
    /\ runPc = "start" /\ ~args.skipdevices
    /\ ReadDeviceInfo(db).error = ""
    /\ table' = ReadDeviceInfo(db).table
    /\ runPc' = "savemat"
    /\ UNCHANGED <<args, db, matfile, enums, queue, disk0, matfile0>>

\* Line 585: read_device_info raises (IOError of line 296, KeyError of line
\* 259); nothing catches it.
RunReadDeviceInfoFail ==
    /\ runPc = "start" /\ ~args.skipdevices
    /\ ReadDeviceInfo(db).error # ""
    /\ runPc' = "aborted"
    /\ UNCHANGED <<args, db, table, matfile, enums, queue, disk0, matfile0>>

\* Line 583 with --skipdevices.
RunSkipDevices ==
    /\ runPc = "start" /\ args.skipdevices
    /\ runPc' = "enums"
    /\ UNCHANGED <<args, db, table, matfile, enums, queue, disk0, matfile0>>

\* Line 587.
RunSaveMat ==
    /\ runPc = "savemat"
    /\ matfile' = table
    /\ runPc' = "enums"
    /\ UNCHANGED <<args, db, table, enums, queue, disk0, matfile0>>

\* Lines 590-591.
RunGetEnums ==
    /\ runPc = "enums" /\ ~args.skipenums
    /\ enums' = GetBinaryEnumValues(db)
    /\ queue' = << <<"commands", "BinaryCommandType">>, <<"replies", "BinaryReplyType">>,
                   <<"errors", "BinaryErrorType">> >>
    /\ runPc' = "write"
    /\ UNCHANGED <<args, db, table, matfile, disk0, matfile0>>

\* Lines 592-594: the next call of write_binary_enum_file begins.
RunCallWrite ==
    /\ runPc = "write" /\ pc \in {"idle", "finalized"} /\ queue # <<>>
    /\ aEnumName' = Head(queue)[2]
    /\ aCodeTable' = enums[Head(queue)[1]]
    /\ queue' = Tail(queue)
    /\ prior' = IF disk[Head(queue)[2]].exists
                THEN [exists |-> TRUE, map |-> OldMap] ELSE NoPrior
    /\ reg' = RegStart /\ idx' = 1 /\ pc' = "load" /\ warnings' = <<>>
    /\ discarded' = {} /\ loaded' = EmptyMap /\ listing' = <<>>
    /\ UNCHANGED <<disk, pass, firstDisk, runPc, args, db, table, matfile, enums, disk0,
                   matfile0>>

\* An exception of write_binary_enum_file leaves run.
RunAbort ==
    /\ runPc = "write" /\ pc = "error"
    /\ runPc' = "aborted"
    /\ UNCHANGED <<args, db, table, matfile, enums, queue, disk0, matfile0>>

\* Lines 596-601: the run ends (with --skipenums, or after the last listing).
RunClose ==
    /\ \/ runPc = "enums" /\ args.skipenums
       \/ runPc = "write" /\ pc = "finalized" /\ queue = <<>>
    /\ runPc' = "done"
    /\ UNCHANGED <<args, db, table, matfile, enums, queue, disk0, matfile0>>

RunNext ==
    \/ RunReadDeviceInfo /\ UNCHANGED <<cvars, mvars>>
    \/ RunReadDeviceInfoFail /\ UNCHANGED <<cvars, mvars>>
    \/ RunSkipDevices /\ UNCHANGED <<cvars, mvars>>
    \/ RunSaveMat /\ UNCHANGED <<cvars, mvars>>
    \/ RunGetEnums /\ UNCHANGED <<cvars, mvars>>
    \/ RunCallWrite /\ UNCHANGED cvars
    \/ RunAbort /\ UNCHANGED <<cvars, mvars>>
    \/ RunClose /\ UNCHANGED <<cvars, mvars>>
    \/ runPc = "write" /\ EnumLoad /\ UNCHANGED <<cvars, rvars>>
    \/ runPc = "write" /\ EnumMergePair /\ UNCHANGED <<cvars, rvars>>
    \/ runPc = "write" /\ EnumMergeFail /\ UNCHANGED <<cvars, rvars>>
    \/ runPc = "write" /\ EnumFinalize /\ UNCHANGED <<cvars, rvars>>
    \/ runPc = "write" /\ EnumFinalizeFail /\ UNCHANGED <<cvars, rvars>>

InitRun == RunInit /\ ClassifierIdle

SpecRun == InitRun /\ [][RunNext]_vars

InitMerge == MergeInit /\ ClassifierIdle /\ RunIdle

SpecMerge == InitMerge /\ [][MergeNext]_vars
InitClassify == ClassifyInit /\ MergerIdle /\ RunIdle

SpecClassify == InitClassify /\ [][ClassifierNext]_vars

-----------------------------------------------------------------------------
(* Claims about get_device_unit_conversions *)

\* The category of a row, by its lowercase dimension name.
IsPositionRow(row) == DimensionNameOf(row) \in {"length", "angle"}
IsVelocityRow(row) == ~IsPositionRow(row) /\ Contains(DimensionNameOf(row), "velocity")
IsAccelRow(row) ==
    ~IsPositionRow(row) /\ ~IsVelocityRow(row) /\ Contains(DimensionNameOf(row), "acceleration")
IsForceRow(row) ==
    /\ ~IsPositionRow(row) /\ ~IsVelocityRow(row) /\ ~IsAccelRow(row)
    /\ DimensionNameOf(row) \in {"force", "torque"}

\* Indices of the rows already processed that satisfy Cat.
Processed(Cat(_)) == {i \in 1..(ci - 1) : Cat(rows[i])}
LastOf(S) == CHOOSE i \in S : \A j \in S : j <= i
\* Scale of the last processed row of a category, 1 (the default 1.0) if none.
LastScale(Cat(_)) ==
    IF Processed(Cat) = {} THEN 1 ELSE rows[LastOf(Processed(Cat))].Scale

\* C8: every output is determined solely by the last-processed row of its
\* category: positionScale, motionType and usesResolutionDependentScale by the
\* last position-defining row (the flag is true iff that row's function name
\* contains "resolution"), the velocity, acceleration and force scales by the
\* last row of their category.
C8_LastRowWins ==
    cpc = "returned" =>
        /\ unit.positionScale = LastScale(IsPositionRow)
        /\ unit.velocityScale = LastScale(IsVelocityRow)
        /\ unit.accelScale = LastScale(IsAccelRow)
        /\ unit.forceScale = LastScale(IsForceRow)
        /\ Processed(IsPositionRow) # {} =>
              LET last == rows[LastOf(Processed(IsPositionRow))]
              IN /\ unit.useResolution = Contains(LowerFunctionName[last.FunctionName], "resolution")
                 /\ unit.motionType =
                       MotionTypeOf(LowerFunctionName[last.FunctionName], DimensionNameOf(last))

\* C9 as stated: a product without a position-defining row returns motionType 0,
\* usesResolutionDependentScale false and all four scales at 1.0, whatever other
\* rows it supplies.
C9_AllDefaults ==
    (cpc = "returned" /\ Processed(IsPositionRow) = {}) =>
        /\ unit.motionType = 0
        /\ unit.useResolution = FALSE
        /\ unit.positionScale = 1
        /\ unit.velocityScale = 1
        /\ unit.accelScale = 1
        /\ unit.forceScale = 1

\* C9 amended: a product without a position-defining row is classified without
\* error as motionType 0, usesResolutionDependentScale false and positionScale
\* 1.0; its velocity, acceleration and force scales are those of the last row
\* of their category, 1.0 when it has none.
C9_NoPositionRow ==
    (\A i \in 1..Len(rows) : ~IsPositionRow(rows[i])) =>
        /\ cpc # "raised"
        /\ unit.motionType = 0
        /\ unit.useResolution = FALSE
        /\ unit.positionScale = 1
        /\ unit.velocityScale = LastScale(IsVelocityRow)
        /\ unit.accelScale = LastScale(IsAccelRow)
        /\ unit.forceScale = LastScale(IsForceRow)

C9_Witness ==
    /\ cpc = "returned"
    /\ Len(rows) = 2
    /\ \A i \in 1..Len(rows) : ~IsPositionRow(rows[i])
    /\ unit.velocityScale = 2
    /\ unit.motionType = 0

\* C10: motionType is one of {0,1,2,3,9}; it is Linear(1) when the deciding
\* position row has dimension length and a function containing "linear",
\* Rotary(2) for angle and "linear", Tangential(3) for a function containing
\* "tangential" but not "linear", None(0) only without a position row; rows of
\* the other categories never change it (it always is what the last processed
\* position row made it).
C10_MotionType ==
    cpc \in {"loop", "returned"} =>
        /\ unit.motionType \in {0, 1, 2, 3, 9}
        /\ IF Processed(IsPositionRow) = {}
           THEN unit.motionType = 0
           ELSE LET last == rows[LastOf(Processed(IsPositionRow))]
                    f == LowerFunctionName[last.FunctionName]
                    d == DimensionNameOf(last)
                IN /\ unit.motionType # 0
                   /\ (d = "length" /\ Contains(f, "linear")) => unit.motionType = 1
                   /\ (d = "angle" /\ Contains(f, "linear")) => unit.motionType = 2
                   /\ (Contains(f, "tangential") /\ ~Contains(f, "linear")) =>
                          unit.motionType = 3

C10_Witness ==
    /\ cpc = "returned"
    /\ Len(rows) = 2
    /\ DimensionNameOf(rows[1]) = "angle"
    /\ IsVelocityRow(rows[2])
    /\ unit.motionType = 2

-----------------------------------------------------------------------------
(* Claims about write_binary_enum_file *)

NamesOf(entries) == {entries[i][1] : i \in 1..Len(entries)}
CodeIn(entries, name) ==
    entries[CHOOSE i \in 1..Len(entries) : entries[i][1] = name][2]
NamesAt(entries, code) == {entries[i][1] : i \in {j \in 1..Len(entries) : entries[j][2] = code}}
Warned == {warnings[i] : i \in 1..Len(warnings)}
\* The step is an iteration of the merge loop on pair number idx.
MergeIteration == pc = "merge" /\ idx <= Len(aCodeTable)
PairCode == aCodeTable[idx][1]
PairName == Sanitize(aCodeTable[idx][2])

\* C1: merging the same code table a second time, into the listing the first
\* merge wrote, leaves that listing exactly as the first merge wrote it.
C1_Idempotent ==
    (pass = 2 /\ pc = "finalized") => disk = firstDisk

\* C2: without a prior listing the call starts from an empty registry,
\* processes every pair and finalizes without error, writing exactly the
\* sanitized names of the pairs that were not discarded.
C2_NoPriorFinalizes ==
    ~prior.exists =>
        /\ pc # "error"
        /\ (pc = "merge" /\ idx = 1) =>
              /\ reg.valuesByName = EmptyMap
              /\ reg.namesByValue = EmptyMap
        /\ pc = "finalized" =>
              /\ idx = Len(aCodeTable) + 1
              /\ NamesOf(listing) =
                    {Sanitize(aCodeTable[i][2]) : i \in (1..Len(aCodeTable)) \ discarded}

\* The pair being processed matches, case-insensitively, an alias recorded
\* for its code.
PairMatchesAlias ==
    /\ PairCode \in DOMAIN reg.namesByValue
    /\ \E i \in 1..Len(reg.namesByValue[PairCode]) :
          Lower(reg.namesByValue[PairCode][i]) = Lower(PairName)

\* C4, first half: a pair matching an alias of its code is discarded: neither
\* map changes and no warning is emitted.
C4_DiscardStep ==
    (MergeIteration /\ PairMatchesAlias) =>
        /\ reg'.valuesByName = reg.valuesByName
        /\ reg'.namesByValue = reg.namesByValue
        /\ warnings' = warnings
        /\ pc' = "merge"

\* C4, second half: a name N the prior listing binds to code C, when the only
\* incoming pairs for C are case variants of N, is in the final listing at C,
\* and the final listing has no entry for C that the prior listing lacked.
C4_PriorCasingKept ==
    pc = "finalized" =>
        \A N \in DOMAIN prior.map :
            LET C == prior.map[N]
            IN (\A i \in 1..Len(aCodeTable) :
                    aCodeTable[i][1] = C =>
                        Lower(Sanitize(aCodeTable[i][2])) = Lower(N))
               => /\ N \in NamesOf(listing)
                  /\ CodeIn(listing, N) = C
                  /\ NamesAt(listing, C) \subseteq {M \in DOMAIN prior.map : prior.map[M] = C}

\* C4: case preservation: a pair that matches, case-insensitively, an alias
\* recorded for its code is discarded (no map changes, no warning); so a name
\* N the prior listing binds to C, when the only incoming pairs for C are
\* case variants of N, ends in the final listing at C, which gains no other
\* entry for C.
C4_CasePreservation == [][C4_DiscardStep]_vars /\ []C4_PriorCasingKept

\* C5, the step: adding a new name to a code that already has aliases keeps
\* every older name bound as it was, and keeps the code's older aliases.
C5_AliasStep ==
    (MergeIteration /\ PairCode \in DOMAIN reg.namesByValue /\ pc' = "merge") =>
        /\ \A n \in DOMAIN reg.valuesByName \ {PairName} :
              /\ n \in DOMAIN reg'.valuesByName
              /\ reg'.valuesByName[n] = reg.valuesByName[n]
        /\ \A i \in 1..Len(reg.namesByValue[PairCode]) :
              reg'.namesByValue[PairCode][i] = reg.namesByValue[PairCode][i]

\* C5, the result: every name of the prior listing is in the final listing,
\* with its prior code unless a warning was emitted for it.
C5_PriorNamesKept ==
    pc = "finalized" =>
        \A n \in DOMAIN prior.map :
            /\ n \in NamesOf(listing)
            /\ CodeIn(listing, n) = prior.map[n] \/ n \in Warned

\* C5: legacy names are preserved: every name of the prior listing is in the
\* finalized listing, with its prior code unless a warning was emitted for
\* it, and adding a name to a code that has aliases keeps the older entries.
C5_LegacyPreserved == [][C5_AliasStep]_vars /\ []C5_PriorNamesKept

\* The step changes the code bound to a name that was bound to another code.
Rebinds ==
    /\ PairName \in DOMAIN reg.valuesByName
    /\ reg'.valuesByName[PairName] # reg.valuesByName[PairName]

\* C6, the step: an iteration of the merge loop emits exactly one warning,
\* naming the pair's name, when it rebinds a bound name to another code, and
\* none otherwise; the loop goes on after a warning.
C6_WarningStep ==
    MergeIteration =>
        /\ Rebinds => (warnings' = Append(warnings, PairName) /\ pc' = "merge"
                         /\ idx' = idx + 1)
        /\ ~Rebinds => warnings' = warnings

\* C6, the run: once a warning was emitted the call does not fail: it is in
\* the merge loop with valuesByName bound (so that the next iteration, or
\* the write after the last one, raises nothing) or it has finalized; and it
\* finalizes only after the last pair.
C6_WarningNotFatal ==
    /\ warnings # <<>> => (pc \in {"merge", "finalized"} /\ reg.bound)
    /\ pc = "finalized" => idx = Len(aCodeTable) + 1

\* C6: collision warning: a merge step emits a warning iff it changes the
\* code bound to a name that was bound to a different code, exactly once per
\* such rebinding; a warning never stops the merge, which processes the
\* remaining pairs and finalizes.
C6_CollisionWarning == [][C6_WarningStep]_vars /\ []C6_WarningNotFatal

C6_Witness ==
    /\ pc = "finalized"
    /\ Len(warnings) = 1
    /\ discarded # {}
    /\ Len(aCodeTable) = 2

\* Pairs carrying name n that the merge loop did not discard.
KeptPairs(n) ==
    {k \in (1..Len(aCodeTable)) \ discarded : Sanitize(aCodeTable[k][2]) = n}
\* Lines of the written file that hold an entry for name n.
EntryLinesOf(n) ==
    {k \in 1..Len(disk[aEnumName].lines) :
        Contains(disk[aEnumName].lines[k], " " \o n \o " ")}

\* C7: the finalized listing has exactly one line per distinct name of the
\* registry, in strictly ascending name order, each with the code most
\* recently assigned to the name: that of the last pair carrying the name
\* that was not discarded, else the name's prior-listing code.
C7_ListingShape ==
    pc = "finalized" =>
        /\ NamesOf(listing) =
              DOMAIN loaded \cup
              {Sanitize(aCodeTable[k][2]) : k \in (1..Len(aCodeTable)) \ discarded}
        /\ \A i, j \in 1..Len(listing) : i < j => StrLess(listing[i][1], listing[j][1])
        /\ \A i \in 1..Len(listing) :
              LET n == listing[i][1]
              IN /\ Cardinality(EntryLinesOf(n)) = 1
                 /\ listing[i][2] =
                        IF KeptPairs(n) = {} THEN prior.map[n]
                        ELSE aCodeTable[LastOf(KeptPairs(n))][1]

C7_Witness ==
    /\ pc = "finalized"
    /\ Len(listing) = 3
    /\ \E i, j \in 1..Len(listing) : i # j /\ listing[i][2] = listing[j][2]
    /\ warnings # <<>>

-----------------------------------------------------------------------------
(* Claims about run *)

\* The file is a listing written to its end.
CompleteListing(file) ==
    /\ file.exists
    /\ Len(file.lines) >= 2
    /\ SubSeq(file.lines, Len(file.lines) - 1, Len(file.lines)) = << "    end", "end" >>

\* C3, at every point: each listing on disk is the complete prior listing or
\* a complete newly written one (a prior listing is never left deleted).
C3_ListingsWhole ==
    \A e \in EnumNames : disk[e] = disk0[e] \/ CompleteListing(disk[e])

\* C3, on failure: a run that aborts has changed no output artifact.
C3_AbortChangesNothing ==
    runPc = "aborted" => (disk = disk0 /\ matfile = matfile0)

\* C3: no partial commit.
C3_NoPartialCommit == C3_ListingsWhole /\ C3_AbortChangesNothing

\* Firmware order: (major, minor, build) of a is lexicographically above b's.
VersionAbove(a, b) ==
    \/ a.MajorVersion > b.MajorVersion
    \/ a.MajorVersion = b.MajorVersion /\ a.MinorVersion > b.MinorVersion
    \/ a.MajorVersion = b.MajorVersion /\ a.MinorVersion = b.MinorVersion
       /\ a.Build > b.Build

\* The device rows no row of the same device id is above.
NewestRows ==
    {r \in db.devices :
        \A q \in db.devices : q.DeviceId = r.DeviceId => ~VersionAbove(q, r)}

\* The products a run classifies: each newest device row without peripherals,
\* and every peripheral of a newest device row.
ClassifiedProducts ==
    UNION {IF \E q \in db.peripherals : q.ParentId = r.Id
           THEN {q.Id : q \in {x \in db.peripherals : x.ParentId = r.Id}}
           ELSE {r.Id} : r \in NewestRows}

\* The function of the row contains neither "linear" nor "tangential"
\* (compared in lower case, as the classifier does).
Unrecognized(row) ==
    /\ ~Contains(LowerFunctionName[row.FunctionName], "linear")
    /\ ~Contains(LowerFunctionName[row.FunctionName], "tangential")

\* The product has a position-defining row with an unrecognized function.
HasBadPositionRow(product) ==
    \E k \in 1..Len(db.conversions[product]) :
        /\ IsPositionRow(db.conversions[product][k])
        /\ Unrecognized(db.conversions[product][k])

\* The run has gone through read_device_info (it was not skipped).
ExtractionDone == runPc \notin {"idle", "start"} /\ ~args.skipdevices

\* C11: unrecognized function rejection.  If a product classified during
\* extraction has a position-defining row whose function contains neither
\* "linear" nor "tangential", classification of that product raises, so
\* read_device_info fails and the run is aborted with the dataset and every
\* listing as they were and no listing generation started; a product without
\* such a row never raises, whatever the functions of its other rows, so a run
\* over a non-empty device table fails in extraction only for such a row.
C11_UnrecognizedRejected ==
    /\ \A p \in DOMAIN db.conversions :
          GetDeviceUnitConversions(db.conversions[p], UnitStart).raised
              <=> HasBadPositionRow(p)
    /\ (ExtractionDone /\ \E p \in ClassifiedProducts : HasBadPositionRow(p)) =>
          /\ runPc = "aborted"
          /\ matfile = matfile0 /\ disk = disk0
          /\ enums = <<>> /\ pc = "idle"
    /\ (ExtractionDone /\ runPc = "aborted" /\ pc = "idle" /\ db.devices # {}) =>
          \E p \in ClassifiedProducts : HasBadPositionRow(p)

\* An aborted extraction whose classified products include one with a bad
\* position row and one with an unrecognized function on a velocity row only.
C11_Witness ==
    /\ runPc = "aborted" /\ ~args.skipdevices
    /\ \E p \in ClassifiedProducts : HasBadPositionRow(p)
    /\ \E p \in ClassifiedProducts :
          /\ ~HasBadPositionRow(p)
          /\ \E k \in 1..Len(db.conversions[p]) :
                IsVelocityRow(db.conversions[p][k]) /\ Unrecognized(db.conversions[p][k])

\* The Device record that read_device_info builds from device row r.
DeviceOf(r) ==
    [DeviceId |-> r.DeviceId, Name |-> r.Name,
     Peripherals |-> PeripheralsOf(db, <<r.DeviceId, r.Name, r.Id>>)]

-----------------------------------------------------------------------------
(* Claims about read_binary_enum_file *)

\* The elements of a sequence, as a set.
Range(seq) == {seq[i] : i \in 1..Len(seq)}

\* C13: listing round-trip.  Reading a finalized listing back with
\* read_binary_enum_file yields exactly the (name, code) entries that were
\* written, negative codes of the int32 errors listing included, so that the
\* registry a second merge loads is the name->code map the first one wrote.
C13_RoundTrip ==
    /\ pc = "finalized" =>
          Range(ReadBinaryEnumFile(disk[aEnumName].lines)) = Range(listing)
    /\ (pass = 2 /\ pc # "load") => loaded = prior.map

====
